---- MODULE Spec2Model ----
(***************************************************************************)
(* Model of LocalizeLimbusCompany-TR.py: the DownloadThread worker (run /  *)
(* stop), the MainWindow orchestrator (start_installation,                 *)
(* stop_installation, the completion / error slots, uninstall) and the     *)
(* part of the file system they act on; and of installer.py: the           *)
(* UnzipWorker thread.                                                     *)
(*                                                                         *)
(* Worker threads emit Qt signals to slots of MainWindow, which lives in   *)
(* the UI thread: the connections are queued, so an emission appends to    *)
(* the UI thread's event queue and the slot runs when the UI thread takes  *)
(* the event.                                                              *)
(***************************************************************************)
EXTENDS Integers, Sequences, FiniteSets, TLC

\* ------------------------------------------------------------------ bounds
MaxThreads == 2      \* DownloadThread objects created in one run of the program
MaxThreadsUi == 1    \* the same, in SpecUi
MaxBody    == 3      \* largest response body, in bytes (SpecDT)
MaxBodyUi  == 1      \* largest response body, in bytes (Spec)
BlockSize  == 2      \* largest chunk iter_content yields (block_size, scaled)
MaxFaults  == 1      \* transport / file faults the environment injects (Spec)
MaxProxyLen == 2     \* longest custom proxy URL, in symbols
MaxEntries == 101    \* most entries of the archive UnzipWorker extracts

\* ------------------------------------------------------- program constants
max_retries == 3         \* DownloadThread.max_retries
config_max_retries == 3  \* max_retries of download_install_config

VARIABLES
    dt,       \* the DownloadThread objects: ThreadIds -> record
    queue,    \* signals emitted by worker threads, not yet handled by the UI thread
    cwd,      \* names of the archive files that exist in the working directory
    lang,     \* <game_path>/LimbusCompany_Data/Lang: [exists, entries]
    mw,       \* the fields of MainWindow
    ui,       \* the UI thread: what it is blocked on, and ghost bookkeeping
    faults,   \* faults the environment may still inject
    fs,       \* the settings file ./config.json, the game directories and font
              \* files that exist
    uz        \* the UnzipWorker of installer.py and the signals it has emitted

vars == <<dt, queue, cwd, lang, mw, ui, faults, fs, uz>>

ThreadIds == 1..MaxThreads

Min(a, b) == IF a < b THEN a ELSE b

\* ---------------------------------------------------------- file names
\* A file name is a sequence of symbols, so that str.endswith can be computed.
EndsWith(s, suf) ==
    /\ Len(suf) <= Len(s)
    /\ SubSeq(s, Len(s) - Len(suf) + 1, Len(s)) = suf

\* ------------------------------------------------------- DownloadThread
CancelledMsg == "cancelled"       \* "下载已取消"

NoThread ==
    [pc |-> "none", kind |-> "none", attempt |-> 0, save_path |-> <<>>,
     backup_url |-> FALSE, body |-> 0, known |-> FALSE,
     stop_flag |-> FALSE, retry_count |-> 0,
     current_url |-> "primary", used_backup |-> FALSE,
     total_size |-> 0, downloaded_size |-> 0, remaining |-> 0,
     urls |-> <<>>, outcomes |-> <<>>, result |-> "none"]

\* DownloadThread.__init__ followed by start(): the thread is at the top of
\* the while loop of run().  body and known describe the resource behind the
\* URL: the length of its body and whether the server sends content-length.
NewThread(kind, attempt, save_path, backup, body, known) ==
    [NoThread EXCEPT !.pc = "loop", !.kind = kind, !.attempt = attempt,
                     !.save_path = save_path, !.backup_url = backup,
                     !.body = body, !.known = known]

isRunning(t) == dt[t].pc \in {"loop", "stream", "sleep"}

\* progress = int((downloaded_size / total_size) * 100) (line 136).  The
\* quotient is computed in double precision; for every total below 50 bytes,
\* which covers the bodies of this model, the result equals the integer floor
\* (for larger totals it can be one below: 29 of 50 bytes gives 57).
Progress(downloaded, total) == (downloaded * 100) \div total

\* SwitchUrl with the switch one attempt late.
SwitchUrlLate(d) ==
    IF d.retry_count > 1 /\ d.backup_url /\ ~d.used_backup
    THEN [d EXCEPT !.current_url = "backup", !.used_backup = TRUE]
    ELSE d

\* Lines 96-100 of run(): from the second attempt on, switch once to the backup
\* URL when one is configured.
SwitchUrl(d) ==
    IF d.retry_count > 0 /\ d.backup_url /\ ~d.used_backup
    THEN [d EXCEPT !.current_url = "backup", !.used_backup = TRUE]
    ELSE d

\* OnException giving up one retry late.
OnExceptionOffByOne(d, kind) ==
    LET rc == d.retry_count + 1
        o  == Append(d.outcomes, kind)
    IN
    IF kind \in {"timeout", "conn"}
    THEN IF rc > max_retries
         THEN [d |-> [d EXCEPT !.retry_count = rc, !.outcomes = o, !.pc = "done", !.result = kind],
               out |-> <<[sig |-> "download_error", arg |-> kind]>>]
         ELSE [d |-> [d EXCEPT !.retry_count = rc, !.outcomes = o, !.pc = "sleep"],
               out |-> <<>>]
    ELSE IF kind = "other"
    THEN [d |-> [d EXCEPT !.outcomes = o, !.pc = "done", !.result = "other"],
          out |-> <<[sig |-> "download_error", arg |-> "other"]>>]
    ELSE [d |-> [d EXCEPT !.outcomes = o, !.pc = "done", !.result = "raised"],
          out |-> <<>>]

\* The except clauses of run() (lines 142-168): Timeout and ConnectionError
\* count a retry and give up at max_retries, any other RequestException gives
\* up at once.  An exception that is not a RequestException (OSError from open
\* or write) leaves run() with no signal emitted.  The result is the thread
\* after the clause and the signals it emitted.
OnException(d, kind) ==
    LET rc == d.retry_count + 1
        o  == Append(d.outcomes, kind)
    IN
    IF kind \in {"timeout", "conn"}
    THEN IF rc >= max_retries
         THEN [d |-> [d EXCEPT !.retry_count = rc, !.outcomes = o, !.pc = "done", !.result = kind],
               out |-> <<[sig |-> "download_error", arg |-> kind]>>]
         ELSE [d |-> [d EXCEPT !.retry_count = rc, !.outcomes = o, !.pc = "sleep"],
               out |-> <<>>]
    ELSE IF kind = "other"
    THEN [d |-> [d EXCEPT !.outcomes = o, !.pc = "done", !.result = "other"],
          out |-> <<[sig |-> "download_error", arg |-> "other"]>>]
    ELSE [d |-> [d EXCEPT !.outcomes = o, !.pc = "done", !.result = "raised"],
          out |-> <<>>]

\* The signals `out` of thread t appended to the UI thread's event queue.
Emit(q, t, out) ==
    q \o [i \in 1..Len(out) |-> [thr |-> t, sig |-> out[i].sig, arg |-> out[i].arg]]

\* Head of the while loop, the request succeeds (lines 94-123): choose the URL,
\* requests.get, raise_for_status, read content-length, open the destination
\* file for writing (which creates or truncates it).
DTRequestOk(t) ==
    /\ dt[t].pc = "loop"
    /\ LET d == SwitchUrl(dt[t]) IN
         dt' = [dt EXCEPT ![t] =
                  [d EXCEPT !.urls = Append(d.urls, d.current_url),
                            !.total_size = IF d.known THEN d.body ELSE 0,
                            !.downloaded_size = 0,
                            !.remaining = d.body,
                            !.pc = "stream"]]
    /\ cwd' = cwd \cup {dt[t].save_path}
    /\ UNCHANGED <<queue, lang, mw, ui, faults, fs, uz>>

\* Head of the while loop, the request fails: requests.get or raise_for_status
\* raises (timeout, connection error, other RequestException such as an HTTP
\* error status), or open() raises OSError.
DTRequestFail(t) ==
    /\ dt[t].pc = "loop"
    /\ faults > 0
    /\ faults' = faults - 1
    /\ \E kind \in {"timeout", "conn", "other", "oserror"} :
         LET d == SwitchUrl(dt[t])
             r == OnException([d EXCEPT !.urls = Append(d.urls, d.current_url)], kind)
         IN
         /\ dt' = [dt EXCEPT ![t] = r.d]
         /\ queue' = Emit(queue, t, r.out)
    /\ UNCHANGED <<cwd, lang, mw, ui, fs, uz>>

\* One iteration of the for loop over iter_content (lines 124-137): the stop
\* flag is tested under the mutex, then the chunk is written and the progress
\* emitted.  urllib3 never yields an empty chunk, so `if data` always holds.
DTChunk(t) ==
    /\ dt[t].pc = "stream"
    /\ \E n \in 1..Min(BlockSize, dt[t].remaining) :
         LET d == dt[t] IN
         IF d.stop_flag
         THEN /\ dt' = [dt EXCEPT ![t] = [d EXCEPT !.pc = "done", !.result = CancelledMsg,
                                                  !.outcomes = Append(d.outcomes, CancelledMsg)]]
              /\ queue' = Emit(queue, t, <<[sig |-> "download_error", arg |-> CancelledMsg]>>)
         ELSE LET ds == d.downloaded_size + n IN
              /\ dt' = [dt EXCEPT ![t] = [d EXCEPT !.downloaded_size = ds,
                                                  !.remaining = d.remaining - n]]
              /\ IF d.total_size > 0
                 THEN queue' = Emit(queue, t, <<[sig |-> "progress_updated",
                                                 arg |-> Progress(ds, d.total_size)]>>)
                 ELSE queue' = queue
    /\ UNCHANGED <<cwd, lang, mw, ui, faults, fs, uz>>

\* iter_content or file.write raises in the middle of the body: a read timeout
\* is raised as ConnectionError, a broken chunked body as another
\* RequestException, a failed write as OSError.
DTStreamFail(t) ==
    /\ dt[t].pc = "stream"
    /\ dt[t].remaining > 0
    /\ faults > 0
    /\ faults' = faults - 1
    /\ \E kind \in {"conn", "other", "oserror"} :
         LET r == OnException(dt[t], kind) IN
         /\ dt' = [dt EXCEPT ![t] = r.d]
         /\ queue' = Emit(queue, t, r.out)
    /\ UNCHANGED <<cwd, lang, mw, ui, fs, uz>>

\* The body is exhausted: the for loop and the with block end, and
\* download_finished is emitted (lines 139-140).
DTFinish(t) ==
    /\ dt[t].pc = "stream"
    /\ dt[t].remaining = 0
    /\ dt' = [dt EXCEPT ![t] = [dt[t] EXCEPT !.pc = "done", !.result = "finished",
                                            !.outcomes = Append(dt[t].outcomes, "ok")]]
    /\ queue' = Emit(queue, t, <<[sig |-> "download_finished", arg |-> dt[t].save_path]>>)
    /\ UNCHANGED <<cwd, lang, mw, ui, faults, fs, uz>>

\* time.sleep(retry_delay) returns (lines 151, 162); nothing wakes it early.
DTSleep(t) ==
    /\ dt[t].pc = "sleep"
    /\ dt' = [dt EXCEPT ![t].pc = "loop"]
    /\ UNCHANGED <<queue, cwd, lang, mw, ui, faults, fs, uz>>

\* DownloadThread.stop() (lines 74-81): set the flag under the mutex; wakeAll
\* wakes nobody, run() never waits on the condition.
stop(d) == [d EXCEPT !.stop_flag = TRUE]

DTStep(t) ==
    \/ DTRequestOk(t)
    \/ DTRequestFail(t)
    \/ DTChunk(t)
    \/ DTStreamFail(t)
    \/ DTFinish(t)
    \/ DTSleep(t)

\* ------------------------------------------- UnzipWorker (installer.py)
\* The worker before start(); zip_exists and total_files describe the bundled
\* LocalizeLimbusCompany-TR.zip: whether it is there and how many entries
\* namelist() returns.  i counts the entries extracted, out holds the signals
\* emitted, in order.
NoUnzip ==
    [pc |-> "none", zip_exists |-> FALSE, total_files |-> 0, i |-> 0, out |-> <<>>]

NewUnzip(zip_exists, total_files) ==
    [NoUnzip EXCEPT !.pc = "start", !.zip_exists = zip_exists,
                    !.total_files = total_files]

\* log_signal.emit(text) and progress_signal.emit(value).
Log(text) == [sig |-> "log", arg |-> text]
Prog(value) == [sig |-> "progress", arg |-> value]
MissingMsg == "missing"         \* '错误：未找到LocalizeLimbusCompany-TR.zip文件'
ExtractingMsg == "extracting"   \* '正在解压：<file>'
CompleteMsg == "complete"       \* '解压完成！'
ErrorMsg == "error"             \* '解压错误：<exception>'

\* The pairs (k, n), n up to 128, for which k / n * 100 in double precision
\* lies just below the integer 100k / n, so that int() gives one less.
ShortByOne == {<<29, 50>>, <<29, 100>>, <<57, 100>>, <<58, 100>>}

\* progress = int((i + 1) / total_files * 100) (line 66), k being i + 1.
UnzipProgress(k, n) ==
    (100 * k) \div n - (IF <<k, n>> \in ShortByOne THEN 1 ELSE 0)

\* The except clause moved into a finally clause that also reports completion.
OnUnzipErrorFinally(out) == out \o <<Log(ErrorMsg), Log(CompleteMsg), Prog(100)>>

\* The except clause of run() (lines 71-72): the error is logged.
OnUnzipError(out) == Append(out, Log(ErrorMsg))

\* Lines 51-54 of run(): the archive is not there.
UZMissing ==
    /\ uz.pc = "start"
    /\ ~uz.zip_exists
    /\ uz' = [uz EXCEPT !.pc = "done", !.out = Append(@, Log(MissingMsg))]
    /\ UNCHANGED <<dt, queue, cwd, lang, mw, ui, faults, fs>>

\* Lines 56-62: the output directory is made if need be, the archive opened
\* and its name list read.  makedirs stands outside the try: when it raises,
\* run() ends with nothing emitted.  An archive that cannot be read raises
\* inside the try.
UZOpen ==
    /\ uz.pc = "start"
    /\ uz.zip_exists
    /\ \E outcome \in {"ok", "makedirs", "badzip"} :
         uz' = IF outcome = "ok" THEN [uz EXCEPT !.pc = "loop"]
               ELSE IF outcome = "makedirs" THEN [uz EXCEPT !.pc = "done"]
               ELSE [uz EXCEPT !.pc = "done", !.out = OnUnzipError(@)]
    /\ UNCHANGED <<dt, queue, cwd, lang, mw, ui, faults, fs>>

\* One iteration of the for loop (lines 63-67): the entry is announced and
\* extracted and the progress emitted.
UZExtract ==
    /\ uz.pc = "loop"
    /\ uz.i < uz.total_files
    /\ uz' = [uz EXCEPT !.i = @ + 1,
                        !.out = @ \o <<Log(ExtractingMsg),
                                       Prog(UnzipProgress(uz.i + 1, uz.total_files))>>]
    /\ UNCHANGED <<dt, queue, cwd, lang, mw, ui, faults, fs>>

\* One iteration in which zip_ref.extract raises.
UZExtractFail ==
    /\ uz.pc = "loop"
    /\ uz.i < uz.total_files
    /\ uz' = [uz EXCEPT !.pc = "done",
                        !.out = OnUnzipError(Append(@, Log(ExtractingMsg)))]
    /\ UNCHANGED <<dt, queue, cwd, lang, mw, ui, faults, fs>>

\* The loop is over (lines 69-70): completion is logged and progress 100
\* emitted.
UZComplete ==
    /\ uz.pc = "loop"
    /\ uz.i = uz.total_files
    /\ uz' = [uz EXCEPT !.pc = "done", !.out = @ \o <<Log(CompleteMsg), Prog(100)>>]
    /\ UNCHANGED <<dt, queue, cwd, lang, mw, ui, faults, fs>>

\* ----------------------------------------------------------- file system
\* Lang is <game_path>/LimbusCompany_Data/Lang.  Its entries are the content
\* directories (named as a manifest names them), the marker file config.json
\* and "Other", which stands for anything else that lives there.
ConfigJson == "config.json"
LangEntries == {"LLC-zh-CN", "Alt", ConfigJson, "Other", "LLC_zh-CN"}
NoLang == [exists |-> FALSE, entries |-> {}]

\* os.path.exists(os.path.join(game_path, "LimbusCompany_Data", "Lang", name)):
\* joining with the empty name gives the Lang directory itself.
TargetExists(l, name) == IF name = "" THEN l.exists ELSE name \in l.entries

\* shutil.rmtree of that path.
RmTarget(l, name) ==
    IF name = "" THEN NoLang ELSE [l EXCEPT !.entries = l.entries \ {name}]

\* MainWindow.uninstall (lines 484-526) on window w and Lang directory l; fail
\* names the removal the file system refuses, if any.  The result is the
\* return value and the Lang directory afterwards.
uninstall(w, l, fail) ==
    IF w.game_path = "" THEN [ok |-> FALSE, lang |-> l]
    ELSE IF TargetExists(l, w.name) /\ fail = "rmtree" THEN [ok |-> FALSE, lang |-> l]
    ELSE LET l1 == IF TargetExists(l, w.name) THEN RmTarget(l, w.name) ELSE l IN
         IF ConfigJson \in l1.entries /\ fail = "remove" THEN [ok |-> FALSE, lang |-> l1]
         ELSE [ok |-> TRUE, lang |-> [l1 EXCEPT !.entries = l1.entries \ {ConfigJson}]]

\* ------------------------------------------------------------- manifests
\* install_info.json as download_install_config stores it.  A link is given by
\* the basename of its URL path, the only part of it the program looks at.
DefaultContentFile == <<"LimbusLocalize_latest.7z">>
DefaultFontFile == <<"LLCCN-Font.7z">>

\* A JSON value that is missing from the object, and the JSON null.
JsonAbsent == "<absent>"
JsonNull == "<null>"

\* has_abs says that the manifest supplies absolutePath, abs_in_archive that
\* the content archive holds that sub-path.
Manifests ==
    { [name |-> "LLC-zh-CN", content_base |-> <<"c">>, has_font |-> FALSE,
       font_base |-> <<>>, content_type |-> "zip", font_type |-> "7z",
       has_abs |-> FALSE, abs_in_archive |-> FALSE],
      [name |-> "", content_base |-> <<"c">>, has_font |-> TRUE,
       font_base |-> <<"f">>, content_type |-> "7z", font_type |-> "7z",
       has_abs |-> FALSE, abs_in_archive |-> FALSE],
      [name |-> "Alt", content_base |-> <<"x", "f">>, has_font |-> TRUE,
       font_base |-> <<"f">>, content_type |-> "zip", font_type |-> "rar",
       has_abs |-> FALSE, abs_in_archive |-> FALSE],
      [name |-> "Alt", content_base |-> <<"c">>, has_font |-> FALSE,
       font_base |-> <<>>, content_type |-> "rar", font_type |-> "7z",
       has_abs |-> FALSE, abs_in_archive |-> FALSE],
      [name |-> "LLC-zh-CN", content_base |-> <<"c">>, has_font |-> FALSE,
       font_base |-> <<>>, content_type |-> "zip", font_type |-> "7z",
       has_abs |-> TRUE, abs_in_archive |-> FALSE],
      [name |-> "Alt", content_base |-> <<"f">>, has_font |-> TRUE,
       font_base |-> <<"f">>, content_type |-> "zip", font_type |-> "7z",
       has_abs |-> FALSE, abs_in_archive |-> FALSE] }

NoManifest ==
    [name |-> "", content_base |-> <<>>, has_font |-> FALSE,
     font_base |-> <<>>, content_type |-> "", font_type |-> "",
     has_abs |-> FALSE, abs_in_archive |-> FALSE]

\* self.install_config: None after construction, or what response.json()
\* returned.  loaded says that it is a JSON object, the only kind of value that
\* has the .get the handlers call.
NoConfig == NoManifest @@ [loaded |-> FALSE]

\* ContentName keeping an empty name.
ContentNameKeepsEmpty(m) == IF m.name \in {JsonAbsent, JsonNull} THEN "LLC-zh-CN" ELSE m.name

\* Lines 578-580: the name of the manifest, 'LLC-zh-CN' when absent, null or
\* empty.
ContentName(m) == IF m.name \in {JsonAbsent, JsonNull, ""} THEN "LLC-zh-CN" ELSE m.name

\* Lines 654-663 and 674-683: the basename of the link, or the default name.
ContentFile(m) == IF m.content_base = <<>> THEN DefaultContentFile ELSE m.content_base
FontFile(m) == IF m.font_base = <<>> THEN DefaultFontFile ELSE m.font_base

\* Lines 702-707: the test on_download_finished makes to recognise a font file.
\* save_path is cwd joined with the file name and a basename holds no
\* separator, so the path ends with the font name iff the file name does.
IsFontFile(cfg, file_path) ==
    cfg.has_font /\ cfg.font_base # <<>> /\ EndsWith(file_path, cfg.font_base)

\* -------------------------------------------------------- manifest client
\* A URL is a sequence of symbols: a part that ends in no slash, or one slash.
Slash == "/"
GithubScheme == "https://"
GithubNetloc == "raw.githubusercontent.com"
GithubPath == "/EveGlowLuna/LLC-TemporaryReplacer/refs/heads/main/install_info.json"
github_raw_url == <<GithubScheme, GithubNetloc, GithubPath>>
DefaultMirrorUrl == <<"https://gh-proxy.com", Slash, GithubNetloc, GithubPath>>

\* str.rstrip('/').
RECURSIVE RStrip(_)
RStrip(u) ==
    IF u # <<>> /\ u[Len(u)] = Slash THEN RStrip(SubSeq(u, 1, Len(u) - 1)) ELSE u

\* ConfigUrl keeping the trailing slashes of the proxy.
ConfigUrlKeepsSlash(use_mirror, custom_proxy_url) ==
    IF ~use_mirror THEN github_raw_url
    ELSE IF custom_proxy_url # <<>>
    THEN custom_proxy_url \o <<Slash, GithubNetloc, GithubPath>>
    ELSE DefaultMirrorUrl

\* Lines 543-560: the URL download_install_config requests.
ConfigUrl(use_mirror, custom_proxy_url) ==
    IF ~use_mirror THEN github_raw_url
    ELSE IF custom_proxy_url # <<>>
    THEN RStrip(custom_proxy_url) \o <<Slash, GithubNetloc, GithubPath>>
    ELSE DefaultMirrorUrl

\* What one request for the manifest can come to: a timeout, a connection
\* error, another RequestException (an HTTP error status among them), a body
\* that is not JSON, a JSON body that is not an object, or a manifest.
ConfigFailures == {"timeout", "conn", "other", "badjson", "notobject"}
Failed(k) == [kind |-> k, manifest |-> NoManifest]
Served(m) == [kind |-> "ok", manifest |-> m]

\* ConfigStep retrying every RequestException.
ConfigStepRetriesAll(retry_count, r) ==
    IF r.kind = "ok" THEN [next |-> "return_true", retry_count |-> retry_count]
    ELSE IF r.kind \in {"timeout", "conn", "other"}
    THEN IF retry_count + 1 >= config_max_retries
         THEN [next |-> "return_false", retry_count |-> retry_count + 1]
         ELSE [next |-> "sleep", retry_count |-> retry_count + 1]
    ELSE [next |-> "return_false", retry_count |-> retry_count]

\* One pass through the body of the while loop (lines 541-622) for the outcome
\* r of the request: return True, return False after show_error, or sleep and
\* go round again.  A JSON body that is not an object is stored in
\* install_config, and its missing .get lands in `except Exception`.
ConfigStep(retry_count, r) ==
    IF r.kind = "ok" THEN [next |-> "return_true", retry_count |-> retry_count]
    ELSE IF r.kind \in {"timeout", "conn"}
    THEN IF retry_count + 1 >= config_max_retries
         THEN [next |-> "return_false", retry_count |-> retry_count + 1]
         ELSE [next |-> "sleep", retry_count |-> retry_count + 1]
    ELSE [next |-> "return_false", retry_count |-> retry_count]

\* The while loop of download_install_config from its i-th request on; resp[i]
\* is the outcome of the i-th request and run what the call has done so far.
RECURSIVE ConfigLoop(_, _, _, _, _)
ConfigLoop(w, resp, i, retry_count, run) ==
    IF retry_count >= config_max_retries \/ i > Len(resp)
    THEN [run EXCEPT !.w = w]
    ELSE LET r   == resp[i]
             st  == ConfigStep(retry_count, r)
             w1  == IF r.kind = "ok"
                    THEN [w EXCEPT !.install_config = r.manifest @@ [loaded |-> TRUE],
                                   !.name = ContentName(r.manifest)]
                    ELSE IF r.kind = "notobject"
                    THEN [w EXCEPT !.install_config = NoConfig]
                    ELSE w
             run1 == [run EXCEPT !.urls = Append(@, ConfigUrl(w.use_mirror, w.custom_proxy_url)),
                                 !.outcomes = Append(@, r.kind)]
         IN
         IF st.next = "sleep"
         THEN ConfigLoop(w1, resp, i + 1, st.retry_count, [run1 EXCEPT !.sleeps = @ + 1])
         ELSE [run1 EXCEPT !.w = w1, !.returned = TRUE,
                           !.ok = (st.next = "return_true"),
                           !.errors = IF st.next = "return_false" THEN 1 ELSE 0]

\* download_install_config (lines 528-622) on window w when the network
\* answers its requests with resp.  The result holds the window afterwards,
\* the return value, the URLs requested, their outcomes, the number of
\* time.sleep calls and of show_error dialogs; returned is false when the call
\* asked for more answers than resp holds.
download_install_config(w, resp) ==
    ConfigLoop(w, resp, 1, 0,
               [w |-> w, ok |-> FALSE, returned |-> FALSE, urls |-> <<>>,
                outcomes |-> <<>>, sleeps |-> 0, errors |-> 0])

\* The sequences of answers one call of download_install_config uses up, for
\* the manifests of Manifests: every answer is asked for and the call returns.
Answers == {Failed(k) : k \in ConfigFailures} \cup {Served(m) : m \in Manifests}
AnswerSeqs(A) == UNION {[1..n -> A] : n \in 1..config_max_retries}
Cost(resp) == Cardinality({i \in 1..Len(resp) : resp[i].kind # "ok"})

\* ------------------------------------------------------------ MainWindow
IdleWindow ==
    [game_path |-> "", name |-> "", download_thread |-> 0, font_download_thread |-> 0,
     is_downloading |-> FALSE, install_config |-> NoConfig, font_path |-> "",
     use_mirror |-> FALSE, custom_proxy_url |-> <<>>, progress_bar |-> 0]

\* The answer sequences one call uses up, the empty one for a call that is not
\* made, by the number of failed requests among them.
ConfigRuns ==
    {x : x \in {resp \in AnswerSeqs(Answers) :
                   LET r == download_install_config(IdleWindow, resp) IN
                   r.returned /\ Len(r.urls) = Len(resp)}}
RunsWithin ==
    [c \in 0..config_max_retries |->
        {x : x \in {<<>>} \cup {resp \in ConfigRuns : Cost(resp) <= c}}]

\* The UI thread.  pc is "wait" while stop_installation is blocked in
\* download_thread.wait().  The other fields are bookkeeping: attempt counts
\* the install attempts that started downloads, cancelled holds the attempts
\* stop_installation has run for, post the completions that were post-processed,
\* un the return values of the uninstall() calls made in a row (the last two),
\* nthreads the threads created so far and maxthreads how many the run may
\* create, log the steps of the install button's handler when it was the
\* handler the UI thread ran last (empty after any other), shown the
\* messages on_download_error has passed to show_error, cfg what the last
\* call of download_install_config did, rt the settings a fresh instance was
\* asked to reproduce.
NoRun == [ok |-> FALSE, urls |-> <<>>, outcomes |-> <<>>, sleeps |-> 0, errors |-> 0,
          called |-> FALSE]
NoRoundTrip == [done |-> FALSE, saved |-> FALSE, game_path |-> "", font_path |-> "",
                use_mirror |-> FALSE, custom_proxy_url |-> <<>>,
                game_valid |-> FALSE, font_exists |-> FALSE]
IdleUi == [pc |-> "idle", attempt |-> 0, cancelled |-> {}, post |-> {}, un |-> <<>>,
           nthreads |-> 0, maxthreads |-> MaxThreads, log |-> <<>>, shown |-> {},
           cfg |-> NoRun, rt |-> NoRoundTrip]

\* An entry of log: a call and what it returned (for a call that returns
\* nothing, whether it went well).
Call(name, ok) == [call |-> name, ok |-> ok]

Last2(q) == IF Len(q) <= 2 THEN q ELSE SubSeq(q, Len(q) - 1, Len(q))

\* -------------------------------------------------------------- settings
NoFile == [exists |-> FALSE, game_path |-> "", font_path |-> "",
           use_mirror |-> FALSE, custom_proxy_url |-> <<>>]

\* save_path_record (lines 333-348): write the four fields to ./config.json;
\* a failed write is logged and leaves the file as it was.
save_path_record(w, f, write_ok) ==
    IF write_ok
    THEN [f EXCEPT !.settings = [exists |-> TRUE, game_path |-> w.game_path,
                                 font_path |-> w.font_path, use_mirror |-> w.use_mirror,
                                 custom_proxy_url |-> w.custom_proxy_url]]
    ELSE f

\* load_path_record that does not read use-mirror.
load_path_recordSkipsMirror(w, f) ==
    IF ~f.settings.exists THEN [w |-> w, fs |-> f, errors |-> 0]
    ELSE LET c  == f.settings
             g  == c.game_path # "" /\ c.game_path \in f.game_dirs
             fo == c.font_path # "" /\ c.font_path \in f.font_files
             w1 == [w EXCEPT !.game_path = IF g THEN c.game_path ELSE @,
                             !.font_path = IF fo THEN c.font_path ELSE @]
         IN [w |-> [w1 EXCEPT !.custom_proxy_url = c.custom_proxy_url], fs |-> f,
             errors |-> (IF c.game_path # "" /\ ~g THEN 1 ELSE 0)
                        + (IF c.font_path # "" /\ ~fo THEN 1 ELSE 0)]

\* load_path_record (lines 292-331) on the fresh window w: a saved game path
\* is taken if the directory still holds LimbusCompany.exe, a saved font path
\* if the file still exists, otherwise show_error is called and the field
\* keeps its default.  setChecked(True) on the unchecked box emits
\* stateChanged, whose slot on_mirror_changed (lines 472-482) saves the
\* settings as they are at that moment, custom_proxy_url not yet loaded.
load_path_record(w, f) ==
    IF ~f.settings.exists THEN [w |-> w, fs |-> f, errors |-> 0]
    ELSE LET c  == f.settings
             g  == c.game_path # "" /\ c.game_path \in f.game_dirs
             fo == c.font_path # "" /\ c.font_path \in f.font_files
             w1 == [w EXCEPT !.game_path = IF g THEN c.game_path ELSE @,
                             !.font_path = IF fo THEN c.font_path ELSE @,
                             !.use_mirror = c.use_mirror]
             f1 == IF c.use_mirror THEN save_path_record(w1, f, TRUE) ELSE f
         IN [w |-> [w1 EXCEPT !.custom_proxy_url = c.custom_proxy_url], fs |-> f1,
             errors |-> (IF c.game_path # "" /\ ~g THEN 1 ELSE 0)
                        + (IF c.font_path # "" /\ ~fo THEN 1 ELSE 0)]

\* ------------------------------------------------------- completion slots
\* on_font_download_finished (lines 716-746): extract the font archive into
\* game_path when its type is '7z' (extract_ok is the outcome of 7z; a failure
\* is passed to show_error), then remove the archive in any case.  Any other
\* type extracts nothing and reports nothing.  Without a manifest object
\* install_config has no .get, which the except clause reports.  What the font
\* archive holds lands outside Lang.  The result is the new cwd and the new
\* bookkeeping of the UI thread.
on_font_download_finished(t, font_path, extract_ok) ==
    LET cfg == mw.install_config
        seven == cfg.loaded /\ cfg.font_type = "7z"
    IN
    [cwd |-> cwd \ {font_path},
     ui  |-> [ui EXCEPT !.post = @ \cup {[thr |-> t, handler |-> "on_font_download_finished",
                                          after_cancel |-> dt[t].attempt \in ui.cancelled,
                                          attempt |-> dt[t].attempt,
                                          format |-> cfg.font_type,
                                          layout_mismatch |-> FALSE,
                                          extracted |-> seven /\ extract_ok,
                                          error |-> ~cfg.loaded \/ (seven /\ ~extract_ok),
                                          info |-> FALSE,
                                          font |-> mw.font_path, content_dir |-> "",
                                          font_dir |-> ""]},
                        !.un = <<>>, !.log = <<>>]]

\* The font the program ships, for which nothing is copied (line 810), and the
\* directory of Lang whose Font subdirectory receives a chosen font (line 811).
DefaultFont == "SourceHanSansCN-Normal.otf"
FontTargetDir == "LLC_zh-CN"

\* post_download_operations (lines 759-835): extract the content archive into
\* game_path, copy the chosen font, report the installation complete, and in
\* the finally clause remove the archive and clear _is_downloading.  An
\* archive type other than zip and 7z, or a failed extraction, raises: the
\* except clause passes it to show_error and the finally clause follows.
\* absolutePath is not read.  The extracted archive brings Lang/<name> and
\* Lang/config.json.
post_download_operations(t, archive_path, extract_ok, remove_ok) ==
    LET cfg == mw.install_config
        ok  == cfg.content_type \in {"zip", "7z"} /\ extract_ok
        l1  == IF ok THEN [exists |-> TRUE,
                           entries |-> lang.entries \cup {ContentName(cfg), ConfigJson}]
               ELSE lang
        copy == ok /\ mw.font_path \notin {"", DefaultFont}
        l2  == IF copy THEN [l1 EXCEPT !.entries = @ \cup {FontTargetDir}] ELSE l1
    IN
    [lang |-> l2,
     cwd  |-> IF remove_ok THEN cwd \ {archive_path} ELSE cwd,
     ui   |-> [ui EXCEPT !.post = @ \cup {[thr |-> t, handler |-> "post_download_operations",
                                           after_cancel |-> dt[t].attempt \in ui.cancelled,
                                           attempt |-> dt[t].attempt,
                                           format |-> cfg.content_type,
                                           layout_mismatch |-> cfg.has_abs /\ ~cfg.abs_in_archive,
                                           extracted |-> ok,
                                           error |-> ~ok,
                                           info |-> ok,
                                           font |-> mw.font_path,
                                           content_dir |-> ContentName(cfg),
                                           font_dir |-> IF copy THEN FontTargetDir ELSE ""]},
                         !.un = <<>>, !.log = <<>>]]

\* The UI thread takes the next queued signal and runs the slot connected to
\* it (lines 668-670, 685-687):
\*   progress_updated  -> update_progress (lines 754-757)
\*   download_error    -> on_download_error (lines 748-752), which passes the
\*                        message to show_error
\*   download_finished -> on_download_finished (lines 700-714) for the content
\*                        thread, on_font_download_finished for the font thread
\* on_download_finished called while install_config is no manifest object
\* raises at its first line and changes nothing.
HandleSignal ==
    /\ ui.pc = "idle"
    /\ queue # <<>>
    /\ queue' = Tail(queue)
    /\ UNCHANGED <<fs, uz>>
    /\ LET m == Head(queue) IN
       \/ /\ m.sig = "progress_updated"
          /\ mw' = [mw EXCEPT !.progress_bar = m.arg]
          /\ UNCHANGED <<dt, cwd, lang, ui, faults>>
       \/ /\ m.sig = "download_error"
          /\ mw' = [mw EXCEPT !.is_downloading = FALSE]
          /\ ui' = [ui EXCEPT !.un = <<>>, !.log = <<>>, !.shown = @ \cup {m.arg}]
          /\ UNCHANGED <<dt, cwd, lang, faults>>
       \/ /\ m.sig = "download_finished"
          /\ dt[m.thr].kind = "content" /\ ~mw.install_config.loaded
          /\ ui' = [ui EXCEPT !.un = <<>>, !.log = <<>>]
          /\ UNCHANGED <<dt, cwd, lang, mw, faults>>
       \/ /\ m.sig = "download_finished"
          /\ \/ dt[m.thr].kind = "font"
             \/ mw.install_config.loaded /\ IsFontFile(mw.install_config, m.arg)
          /\ \E extract_ok \in BOOLEAN :
               LET r == on_font_download_finished(m.thr, m.arg, extract_ok)
                   seven == mw.install_config.loaded /\ mw.install_config.font_type = "7z"
               IN
               /\ (seven /\ ~extract_ok) => faults > 0
               /\ (~seven) => extract_ok
               /\ faults' = IF extract_ok THEN faults ELSE faults - 1
               /\ cwd' = r.cwd
               /\ ui' = r.ui
          /\ UNCHANGED <<dt, lang, mw>>
       \/ /\ m.sig = "download_finished"
          /\ dt[m.thr].kind = "content"
          /\ mw.install_config.loaded /\ ~IsFontFile(mw.install_config, m.arg)
          /\ \E extract_ok \in BOOLEAN, remove_ok \in BOOLEAN :
               LET r == post_download_operations(m.thr, m.arg, extract_ok, remove_ok) IN
               /\ (~extract_ok \/ ~remove_ok) => faults > 0
               /\ (~extract_ok) => mw.install_config.content_type \in {"zip", "7z"}
               /\ (~remove_ok) => m.arg \in cwd
               /\ faults' = IF extract_ok /\ remove_ok THEN faults ELSE faults - 1
               /\ lang' = r.lang
               /\ cwd' = r.cwd
               /\ ui' = r.ui
          /\ mw' = [mw EXCEPT !.is_downloading = FALSE]
          /\ UNCHANGED dt

\* stop_installation that returns without clearing _is_downloading when no
\* thread has to be waited for.
stop_installationKeepsFlag ==
    IF mw.download_thread # 0 /\ isRunning(mw.download_thread)
    THEN /\ dt' = [dt EXCEPT ![mw.download_thread] = stop(dt[mw.download_thread])]
         /\ ui' = [ui EXCEPT !.pc = "wait", !.un = <<>>, !.log = <<Call("stop_installation", TRUE)>>]
         /\ mw' = mw
    ELSE /\ dt' = dt
         /\ ui' = [ui EXCEPT !.cancelled = @ \cup {ui.attempt}, !.un = <<>>,
                             !.log = <<Call("stop_installation", TRUE)>>]
         /\ mw' = mw

\* stop_installation (lines 690-698), up to the wait: stop the content thread
\* if it is running and block until it ends; otherwise finish at once.
stop_installation ==
    IF mw.download_thread # 0 /\ isRunning(mw.download_thread)
    THEN /\ dt' = [dt EXCEPT ![mw.download_thread] = stop(dt[mw.download_thread])]
         /\ ui' = [ui EXCEPT !.pc = "wait", !.un = <<>>, !.log = <<Call("stop_installation", TRUE)>>]
         /\ mw' = mw
    ELSE /\ dt' = dt
         /\ ui' = [ui EXCEPT !.cancelled = @ \cup {ui.attempt}, !.un = <<>>,
                             !.log = <<Call("stop_installation", TRUE)>>]
         /\ mw' = [mw EXCEPT !.is_downloading = FALSE]

\* download_thread.wait() returns once run() has returned; stop_installation
\* then clears _is_downloading (lines 694-698).
StopReturns ==
    /\ ui.pc = "wait"
    /\ dt[mw.download_thread].pc = "done"
    /\ ui' = [ui EXCEPT !.pc = "idle", !.cancelled = @ \cup {ui.attempt}]
    /\ mw' = [mw EXCEPT !.is_downloading = FALSE]
    /\ UNCHANGED <<dt, queue, cwd, lang, faults, fs, uz>>

\* start_installation that fetches the manifest whatever uninstall returned.
start_installationIgnoresUninstall(w, l, fail, resp) ==
    IF w.game_path = ""
    THEN [log |-> <<Call("show_error", FALSE)>>, w |-> w, lang |-> l,
          launch |-> FALSE, requests |-> 0]
    ELSE LET u == uninstall(w, l, fail)
             c == download_install_config(w, resp)
         IN
         IF ~c.ok
         THEN [log |-> <<Call("uninstall", u.ok), Call("download_install_config", FALSE)>>,
               w |-> c.w, lang |-> u.lang, launch |-> FALSE, requests |-> Len(c.urls)]
         ELSE [log |-> <<Call("uninstall", u.ok), Call("download_install_config", TRUE),
                         Call("start", TRUE)>>,
               w |-> [c.w EXCEPT !.is_downloading = TRUE, !.progress_bar = 0],
               lang |-> u.lang, launch |-> TRUE, requests |-> Len(c.urls)]

\* start_installation (lines 635-651) when no download is in progress, on
\* window w and Lang directory l: fail names the removal the file system
\* refuses and resp holds the answers to the manifest requests.  The result
\* holds the calls made, in order, with what they returned, the window and
\* Lang afterwards, whether the download threads are to be launched, and the
\* number of manifest requests.
start_installation(w, l, fail, resp) ==
    IF w.game_path = ""
    THEN [log |-> <<Call("show_error", FALSE)>>, w |-> w, lang |-> l,
          launch |-> FALSE, requests |-> 0]
    ELSE LET u == uninstall(w, l, fail) IN
         IF ~u.ok
         THEN [log |-> <<Call("uninstall", FALSE)>>, w |-> w, lang |-> u.lang,
               launch |-> FALSE, requests |-> 0]
         ELSE LET c == download_install_config(w, resp) IN
              IF ~c.ok
              THEN [log |-> <<Call("uninstall", TRUE), Call("download_install_config", FALSE)>>,
                    w |-> c.w, lang |-> u.lang, launch |-> FALSE, requests |-> Len(c.urls)]
              ELSE [log |-> <<Call("uninstall", TRUE), Call("download_install_config", TRUE),
                              Call("start", TRUE)>>,
                    w |-> [c.w EXCEPT !.is_downloading = TRUE, !.progress_bar = 0],
                    lang |-> u.lang, launch |-> TRUE, requests |-> Len(c.urls)]

\* start_installation (lines 625-688), the install button.  While a download
\* is in progress it is stop_installation (lines 631-633).  Otherwise it runs
\* the steps above and, when they end well, creates and starts the content
\* thread and, if the manifest has a font-link, the font thread (lines
\* 653-688).  An input that the call does not use is left out: fail is "none"
\* unless that removal is attempted, resp holds the answers asked for (none
\* when the call returns before the manifest fetch).  A run that would create
\* more threads than the model holds is left out.
StartInstallation ==
    /\ ui.pc = "idle"
    /\ UNCHANGED <<fs, uz>>
    /\ \/ /\ mw.is_downloading
          /\ stop_installation
          /\ UNCHANGED <<queue, cwd, lang, faults>>
       \/ /\ ~mw.is_downloading
          /\ \E fail \in {"none", "rmtree", "remove"} :
             \E resp \in IF mw.game_path = "" \/ fail # "none"
                          THEN {<<>>}
                          ELSE RunsWithin[Min(faults, config_max_retries)] :
               LET cost == (IF fail = "none" THEN 0 ELSE 1) + Cost(resp)
                   r    == start_installation(mw, lang, fail, resp)
                   m    == r.w.install_config
                   k    == IF m.has_font THEN 2 ELSE 1
                   n    == ui.nthreads
                   a    == ui.attempt + 1
               IN
               /\ cost <= faults
               /\ (fail # "none") => (mw.game_path # "" /\ ~uninstall(mw, lang, fail).ok)
               /\ (resp # <<>> /\ resp[Len(resp)].kind = "ok") =>
                     n + (IF resp[Len(resp)].manifest.has_font THEN 2 ELSE 1) <= ui.maxthreads
               /\ r.requests = Len(resp)
               /\ faults' = faults - cost
               /\ lang' = r.lang
               /\ IF r.launch
                  THEN /\ n + k <= ui.maxthreads
                       /\ \E body \in 1..MaxBodyUi, known \in BOOLEAN :
                            dt' = [t \in ThreadIds |->
                                     IF t = n + 1
                                     THEN NewThread("content", a, ContentFile(m), FALSE, body, known)
                                     ELSE IF t = n + 2 /\ m.has_font
                                     THEN NewThread("font", a, FontFile(m), FALSE, body, known)
                                     ELSE dt[t]]
                       /\ mw' = [r.w EXCEPT !.download_thread = n + 1,
                                            !.font_download_thread = IF m.has_font THEN n + 2 ELSE @]
                       /\ ui' = [ui EXCEPT !.attempt = a, !.un = <<>>, !.log = r.log,
                                           !.nthreads = n + k]
                  ELSE /\ dt' = dt
                       /\ mw' = r.w
                       /\ ui' = [ui EXCEPT !.un = <<>>, !.log = r.log]
          /\ UNCHANGED <<queue, cwd>>

\* The uninstall button: uninstall() (lines 484-526).
UninstallClicked ==
    /\ ui.pc = "idle"
    /\ \E fail \in {"none", "rmtree", "remove"} :
         LET r == uninstall(mw, lang, fail) IN
         /\ (fail # "none") => (faults > 0 /\ ~r.ok)
         /\ faults' = IF fail = "none" THEN faults ELSE faults - 1
         /\ lang' = r.lang
         /\ ui' = [ui EXCEPT !.un = Last2(Append(ui.un, r.ok)), !.log = <<>>]
    /\ UNCHANGED <<dt, queue, cwd, mw, fs, uz>>

\* choose_game_path (lines 443-461) with a directory that holds the game: the
\* path is taken and the settings are saved.
ChooseGamePath ==
    /\ ui.pc = "idle"
    /\ mw.game_path = ""
    /\ \E g \in fs.game_dirs, write_ok \in BOOLEAN :
         /\ ~write_ok => faults > 0
         /\ faults' = IF write_ok THEN faults ELSE faults - 1
         /\ mw' = [mw EXCEPT !.game_path = g]
         /\ fs' = save_path_record(mw', fs, write_ok)
    /\ ui' = [ui EXCEPT !.un = <<>>, !.log = <<>>, !.rt = NoRoundTrip]
    /\ UNCHANGED <<dt, queue, cwd, lang, uz>>

\* ---------------------------------------------------------------------------
\* Spec: the program.  MainWindow.__init__ has run: no game path or the saved
\* one, no font or the saved one, no manifest, and a game directory in any
\* state.  Both downloads of an
\* attempt fetch a body of the same length; urls, outcomes and result of a
\* thread record what its run() did.
\* ---------------------------------------------------------------------------
InitLangs ==
    {NoLang} \cup {[exists |-> TRUE, entries |-> e] :
                     e \in {{"Other"}, {"LLC-zh-CN", ConfigJson, "Other"}}}

Init ==
    /\ dt = [t \in ThreadIds |-> NoThread]
    /\ queue = <<>>
    /\ cwd = {}
    /\ lang \in InitLangs
    /\ \E f \in {NoFile, [NoFile EXCEPT !.exists = TRUE, !.game_path = "G"],
                 [NoFile EXCEPT !.exists = TRUE, !.game_path = "G", !.font_path = "F"]} :
         /\ fs = [settings |-> f, game_dirs |-> {"G"}, font_files |-> {"F"}]
         /\ mw = load_path_record(IdleWindow, fs).w
    /\ ui = IdleUi
    /\ faults = MaxFaults
    /\ uz = NoUnzip

Next ==
    \/ StartInstallation
    \/ StopReturns
    \/ UninstallClicked
    \/ ChooseGamePath
    \/ HandleSignal
    \/ \E t \in ThreadIds : DTStep(t)

Spec == Init /\ [][Next]_vars

\* ---------------------------------------------------------------------------
\* SpecUi: the install button.  The user chooses the game directory and
\* clicks install, which is start_installation or, during a download,
\* stop_installation; the worker threads run.  No completion slot runs: the
\* signals stay in the event queue.
\* ---------------------------------------------------------------------------
InitUi ==
    /\ dt = [t \in ThreadIds |-> NoThread]
    /\ queue = <<>>
    /\ cwd = {}
    /\ lang \in InitLangs
    /\ \E f \in {NoFile, [NoFile EXCEPT !.exists = TRUE, !.game_path = "G"]} :
         /\ fs = [settings |-> f, game_dirs |-> {"G"}, font_files |-> {}]
         /\ mw = load_path_record(IdleWindow, fs).w
    /\ ui = [IdleUi EXCEPT !.maxthreads = MaxThreadsUi]
    /\ faults = MaxFaults
    /\ uz = NoUnzip

NextUi ==
    \/ ChooseGamePath
    \/ StartInstallation
    \/ StopReturns
    \/ \E t \in ThreadIds : DTStep(t)

SpecUi == InitUi /\ [][NextUi]_vars

\* ---------------------------------------------------------------------------
\* SpecDT: one DownloadThread, with or without a backup URL, and a caller
\* that may call stop() at any moment.  No slot is connected: the queue keeps
\* every signal the thread emitted, in order.
\* ---------------------------------------------------------------------------
InitDT ==
    /\ \E b \in BOOLEAN, size \in 0..MaxBody, known \in BOOLEAN :
         dt = [t \in ThreadIds |-> IF t = 1 THEN NewThread("content", 1, <<"c">>, b, size, known)
                                   ELSE NoThread]
    /\ queue = <<>>
    /\ cwd = {}
    /\ lang = NoLang
    /\ mw = IdleWindow
    /\ ui = IdleUi
    /\ faults = max_retries
    /\ uz = NoUnzip
    /\ fs = [settings |-> NoFile, game_dirs |-> {}, font_files |-> {}]

StopCall(t) ==
    /\ isRunning(t)
    /\ ~dt[t].stop_flag
    /\ dt' = [dt EXCEPT ![t] = stop(dt[t])]
    /\ UNCHANGED <<queue, cwd, lang, mw, ui, faults, fs, uz>>

NextDT ==
    \/ DTRequestOk(1)
    \/ DTRequestFail(1)
    \/ DTChunk(1)
    \/ DTStreamFail(1)
    \/ DTFinish(1)
    \/ DTSleep(1)
    \/ StopCall(1)

SpecDT == InitDT /\ [][NextDT]_vars

\* ---------------------------------------------------------------------------
\* SpecCfg: download_install_config alone, called on a window with any mirror
\* setting, any custom proxy URL and a game path, against a network that
\* answers each request in any way.  cfg records each call.
\* ---------------------------------------------------------------------------
ProxyHost == "https://proxy.example"
Proxies == UNION {[1..n -> {ProxyHost, Slash}] : n \in 0..MaxProxyLen}

\* Manifests that differ in the name field only.
NamedManifests ==
    {[m EXCEPT !.name = n] : m \in {x \in Manifests : ~x.has_font /\ ~x.has_abs /\ x.content_type = "zip"},
                             n \in {"LLC-zh-CN", "Alt", "", JsonAbsent, JsonNull}}
AnswersCfg == {Failed(k) : k \in ConfigFailures} \cup {Served(m) : m \in NamedManifests}
ConfigRunsCfg ==
    {x : x \in {resp \in AnswerSeqs(AnswersCfg) :
                   LET r == download_install_config(IdleWindow, resp) IN
                   r.returned /\ Len(r.urls) = Len(resp)}}

InitCfg ==
    /\ dt = [t \in ThreadIds |-> NoThread]
    /\ queue = <<>>
    /\ cwd = {}
    /\ lang = NoLang
    /\ \E um \in BOOLEAN, px \in Proxies :
         mw = [IdleWindow EXCEPT !.game_path = "G", !.use_mirror = um,
                                 !.custom_proxy_url = px]
    /\ ui = IdleUi
    /\ faults = 0
    /\ uz = NoUnzip
    /\ fs = [settings |-> NoFile, game_dirs |-> {"G"}, font_files |-> {}]

FetchConfig ==
    /\ \E resp \in ConfigRunsCfg :
         LET r == download_install_config(mw, resp) IN
         /\ mw' = r.w
         /\ ui' = [ui EXCEPT !.cfg = [ok |-> r.ok, urls |-> r.urls, outcomes |-> r.outcomes,
                                      sleeps |-> r.sleeps, errors |-> r.errors,
                                      called |-> TRUE]]
    /\ UNCHANGED <<dt, queue, cwd, lang, faults, fs, uz>>

NextCfg == FetchConfig

SpecCfg == InitCfg /\ [][NextCfg]_vars

\* ---------------------------------------------------------------------------
\* SpecSet: the settings.  The handlers that change a setting save the
\* settings file; the user edits custom-proxy-url in the file, for which the
\* program has no control; files come and go; the program is started again
\* and the fresh window loads the file.  rt records what the window held
\* before, whether the file held just that, and which of the two paths were
\* still good.
\* ---------------------------------------------------------------------------
\* The custom-proxy-url values the user writes: none, a host, a host with a
\* trailing slash.  The settings file keeps the value as it is.
SettingsProxies == {<<>>, <<ProxyHost>>, <<ProxyHost, Slash>>}

SettingsOf(w) ==
    [exists |-> TRUE, game_path |-> w.game_path, font_path |-> w.font_path,
     use_mirror |-> w.use_mirror, custom_proxy_url |-> w.custom_proxy_url]

InitSet ==
    /\ dt = [t \in ThreadIds |-> NoThread]
    /\ queue = <<>>
    /\ cwd = {}
    /\ lang = NoLang
    /\ mw = IdleWindow
    /\ ui = IdleUi
    /\ faults = MaxFaults
    /\ uz = NoUnzip
    /\ fs = [settings |-> NoFile, game_dirs |-> {"G"}, font_files |-> {"F"}]

\* A setter's save_path_record, which may fail.
Save(w) ==
    \E write_ok \in BOOLEAN :
        /\ ~write_ok => faults > 0
        /\ faults' = IF write_ok THEN faults ELSE faults - 1
        /\ fs' = save_path_record(w, fs, write_ok)

\* choose_font (lines 409-431) with a file picked; a dialog that is cancelled
\* does what reset_font does.
ChooseFont ==
    /\ \E f \in fs.font_files :
         /\ mw' = [mw EXCEPT !.font_path = f]
         /\ Save(mw')
    /\ ui' = [ui EXCEPT !.rt = NoRoundTrip]
    /\ UNCHANGED <<dt, queue, cwd, lang, uz>>

\* reset_font (lines 433-441).
ResetFont ==
    /\ mw' = [mw EXCEPT !.font_path = ""]
    /\ Save(mw')
    /\ ui' = [ui EXCEPT !.rt = NoRoundTrip]
    /\ UNCHANGED <<dt, queue, cwd, lang, uz>>

\* on_mirror_changed (lines 472-482): the user toggles the check box.
MirrorChanged ==
    /\ mw' = [mw EXCEPT !.use_mirror = ~mw.use_mirror]
    /\ Save(mw')
    /\ ui' = [ui EXCEPT !.rt = NoRoundTrip]
    /\ UNCHANGED <<dt, queue, cwd, lang, uz>>

\* The user writes a custom-proxy-url into the settings file.
UserEditsProxy ==
    /\ fs.settings.exists
    /\ \E px \in SettingsProxies :
         /\ px # fs.settings.custom_proxy_url
         /\ fs' = [fs EXCEPT !.settings.custom_proxy_url = px]
    /\ UNCHANGED <<dt, queue, cwd, lang, mw, ui, faults, uz>>

\* The game is removed or installed, the font file deleted or put back.
FilesChange ==
    /\ \E gd \in SUBSET {"G"}, ff \in SUBSET {"F"} :
         /\ <<gd, ff>> # <<fs.game_dirs, fs.font_files>>
         /\ fs' = [fs EXCEPT !.game_dirs = gd, !.font_files = ff]
    /\ UNCHANGED <<dt, queue, cwd, lang, mw, ui, faults, uz>>

\* The program is started again: a fresh window runs load_path_record (line
\* 188).
FreshLoad ==
    /\ LET r == load_path_record(IdleWindow, fs) IN
       /\ mw' = r.w
       /\ fs' = r.fs
    /\ ui' = [ui EXCEPT !.rt = [done |-> TRUE, saved |-> fs.settings = SettingsOf(mw),
                                game_path |-> mw.game_path, font_path |-> mw.font_path,
                                use_mirror |-> mw.use_mirror,
                                custom_proxy_url |-> mw.custom_proxy_url,
                                game_valid |-> mw.game_path \in fs.game_dirs,
                                font_exists |-> mw.font_path \in fs.font_files]]
    /\ UNCHANGED <<dt, queue, cwd, lang, faults, uz>>

NextSet ==
    \/ ChooseGamePath
    \/ ChooseFont
    \/ ResetFont
    \/ MirrorChanged
    \/ UserEditsProxy
    \/ FilesChange
    \/ FreshLoad

SpecSet == InitSet /\ [][NextSet]_vars

\* ---------------------------------------------------------------------------
\* SpecUnzip: one UnzipWorker of installer.py, started on an archive that is
\* there or not and has any number of entries; no slot is modelled, out keeps
\* every signal the worker emitted.
\* ---------------------------------------------------------------------------
InitUnzip ==
    /\ dt = [t \in ThreadIds |-> NoThread]
    /\ queue = <<>>
    /\ cwd = {}
    /\ lang = NoLang
    /\ mw = IdleWindow
    /\ ui = IdleUi
    /\ faults = 0
    /\ fs = [settings |-> NoFile, game_dirs |-> {}, font_files |-> {}]
    /\ \E z \in BOOLEAN, n \in 0..MaxEntries : uz = NewUnzip(z, n)

NextUnzip ==
    \/ UZMissing
    \/ UZOpen
    \/ UZExtract
    \/ UZExtractFail
    \/ UZComplete

SpecUnzip == InitUnzip /\ [][NextUnzip]_vars

\* The signals thread t has emitted, in order (SpecDT: nothing consumes them).
ProgressOf(t) == SelectSeq(queue, LAMBDA m : m.thr = t /\ m.sig = "progress_updated")
Terminal(t) == SelectSeq(queue, LAMBDA m : m.thr = t /\ m.sig # "progress_updated")
RetryKinds == {"timeout", "conn"}

\* C1: once stop() has been called during run(), the run ends by emitting the
\* cancelled download_error, never a transport error and never
\* download_finished.
C1_StopYieldsCancelled ==
    \A t \in ThreadIds :
        (dt[t].pc = "done" /\ dt[t].stop_flag) =>
            /\ dt[t].result = CancelledMsg
            /\ Terminal(t) = <<[thr |-> t, sig |-> "download_error", arg |-> CancelledMsg]>>

\* C6: with a backup URL the first attempt uses the primary URL and every
\* later attempt the backup URL; without one every attempt uses the primary
\* URL; a run whose first two attempts fail with a timeout or connection error
\* and whose third attempt streams the body to its end emits download_finished
\* and no download_error.
C6_RetryUsesBackup ==
    \A t \in ThreadIds :
        LET d == dt[t] IN
        /\ \A i \in 1..Len(d.urls) :
              d.urls[i] = IF d.backup_url /\ i >= 2 THEN "backup" ELSE "primary"
        /\ ( /\ d.pc = "done"
             /\ Len(d.outcomes) = 3
             /\ d.outcomes[1] \in RetryKinds
             /\ d.outcomes[2] \in RetryKinds
             /\ d.outcomes[3] = "ok" )
           => /\ Len(d.urls) = 3
              /\ Terminal(t) = <<[thr |-> t, sig |-> "download_finished", arg |-> d.save_path]>>

C6_Witness ==
    /\ dt[1].pc = "done"
    /\ dt[1].backup_url
    /\ dt[1].outcomes = <<"conn", "conn", "ok">>
    /\ dt[1].urls = <<"primary", "backup", "backup">>
    /\ Terminal(1) = <<[thr |-> 1, sig |-> "download_finished", arg |-> dt[1].save_path]>>

\* C7: one run() makes at most 3 requests; a timeout or connection error is
\* retried while fewer than 3 attempts have failed that way, the third emits
\* download_error; any other transport error emits download_error at once and
\* no further request is made.
C7_AtMostThreeAttempts ==
    \A t \in ThreadIds :
        LET d == dt[t]
            n == Len(d.outcomes)
        IN
        /\ Len(d.urls) <= max_retries
        /\ d.retry_count = Cardinality({i \in 1..n : d.outcomes[i] \in RetryKinds})
        /\ Len(d.urls) <= d.retry_count + 1
        /\ (n >= 1 /\ n = Len(d.urls) /\ d.outcomes[n] \in RetryKinds) =>
              IF d.retry_count < max_retries
              THEN d.pc \in {"sleep", "loop"} /\ Terminal(t) = <<>>
              ELSE /\ d.pc = "done"
                   /\ Terminal(t) = <<[thr |-> t, sig |-> "download_error", arg |-> d.outcomes[n]]>>
        /\ \A i \in 1..n : d.outcomes[i] = "other" =>
              /\ i = n
              /\ d.pc = "done"
              /\ Len(d.urls) = n
              /\ Terminal(t) = <<[thr |-> t, sig |-> "download_error", arg |-> "other"]>>

C7_Witness ==
    /\ dt[1].pc = "done"
    /\ Len(dt[1].urls) = 3
    /\ dt[1].outcomes = <<"timeout", "conn", "timeout">>
    /\ Terminal(1) = <<[thr |-> 1, sig |-> "download_error", arg |-> "timeout"]>>

\* C8: for a body of at least 1 byte with a known content-length, the progress
\* values one run() emits, over all its attempts, are non-decreasing and within
\* 0..100, and the last one before download_finished is 100.
C8_ProgressMonotone ==
    \A t \in ThreadIds :
        (dt[t].known /\ dt[t].body >= 1) =>
            LET p == ProgressOf(t) IN
            /\ \A i \in 1..Len(p) : p[i].arg \in 0..100
            /\ \A i \in 1..Len(p) - 1 : p[i].arg <= p[i + 1].arg
            /\ dt[t].result = "finished" => (Len(p) >= 1 /\ p[Len(p)].arg = 100)

\* ------------------------------------------------------- orchestrator claims
\* A thread is active while run() executes or a terminal signal of it waits in
\* the event queue.
Pending(t) == \E i \in 1..Len(queue) : queue[i].thr = t /\ queue[i].sig # "progress_updated"
Active(t) == isRunning(t) \/ Pending(t)
OfAttempt(a) == {t \in ThreadIds : dt[t].pc # "none" /\ dt[t].attempt = a}

\* C2: at most one install / uninstall sequence is in flight: _is_downloading
\* is true whenever a download thread runs or its completion is unprocessed,
\* and neither uninstall() nor a new install sequence runs at such a time.
C2_SingleFlight ==
    [][ /\ \A t \in ThreadIds : Active(t)' => mw'.is_downloading
        /\ UninstallClicked => \A t \in ThreadIds : ~Active(t)
        /\ (StartInstallation /\ ~mw.is_downloading /\ mw.game_path # "")
              => \A t \in ThreadIds : ~Active(t) ]_vars

\* The last install attempt has ended and the orchestrator is idle again.
AttemptOver ==
    /\ ui.attempt >= 1
    /\ ui.pc = "idle"
    /\ ~mw.is_downloading
    /\ \A t \in OfAttempt(ui.attempt) : dt[t].pc = "done" /\ ~Pending(t)

\* C3: when an install attempt has ended and the orchestrator is idle, none of
\* the archive files that attempt downloaded exists on disk.
C3_ArchivesRemoved ==
    AttemptOver => \A t \in OfAttempt(ui.attempt) : dt[t].save_path \notin cwd

\* C4: no download of an attempt is post-processed (post_download_operations,
\* on_font_download_finished) after stop_installation has run for that attempt.
C4_NoPostProcessingAfterStop ==
    \A e \in ui.post : ~e.after_cancel

\* C5: once stop_installation has returned for an attempt, no download thread
\* of that attempt, content or font, is running.
C5_StopTerminatesAll ==
    ui.attempt \in ui.cancelled => \A t \in OfAttempt(ui.attempt) : ~isRunning(t)

\* The content directory of the claims: Lang/<content name>, the name being
\* the manifest's or, before any manifest was fetched, the fixed 'LLC-zh-CN'.
ContentDir == IF mw.name = "" THEN "LLC-zh-CN" ELSE mw.name

\* What a call of uninstall() may change in Lang: the content directory and
\* config.json, nothing else, and not the Lang directory itself.
UninstallFrame ==
    /\ lang'.exists = lang.exists
    /\ \A e \in LangEntries \ {ContentDir, ConfigJson} :
          (e \in lang'.entries) <=> (e \in lang.entries)

\* C9: uninstall(), from the button or as the first step of
\* start_installation, removes only Lang/<content name> and Lang/config.json
\* and leaves every other entry of Lang, and Lang itself, unchanged.
C9_UninstallFrame ==
    [][ (UninstallClicked \/ StartInstallation) => UninstallFrame ]_vars

\* C10: with a game path set, uninstall() called when neither the content
\* directory nor config.json exists returns True and changes nothing on disk,
\* and a second call in a row returns True and changes nothing more.
C10_Idempotent ==
    [][ (UninstallClicked /\ mw.game_path # "") =>
          /\ (ContentDir \notin lang.entries /\ ConfigJson \notin lang.entries)
                => (lang' = lang /\ ui'.un[Len(ui'.un)])
          /\ ui.un # <<>> => (lang' = lang /\ ui'.un[Len(ui'.un)]) ]_vars

\* ------------------------------------------------ install button claims
\* A step creates a download thread.
Launches == \E t \in ThreadIds : dt[t].pc = "none" /\ dt'[t].pc # "none"

\* In the log l the call `later` comes only after `earlier` returned success.
OnlyAfter(l, later, earlier) ==
    \A i \in 1..Len(l) :
        l[i].call = later => \E j \in 1..(i - 1) : l[j] = Call(earlier, TRUE)

\* C11: a start_installation call made while no download is in progress is
\* rejected with no side effect when game_path is unset; otherwise uninstall
\* is its first step, the manifest fetch begins only after uninstall returned
\* success, the download threads are launched and _is_downloading is set only
\* after the manifest fetch returned success, and when uninstall or the
\* manifest fetch fails no thread is started and _is_downloading stays false.
C11_StartOrdering ==
    [][ (StartInstallation /\ ~mw.is_downloading) =>
          LET l == ui'.log IN
          /\ mw.game_path = "" =>
                /\ l = <<Call("show_error", FALSE)>>
                /\ UNCHANGED <<dt, queue, cwd, lang, mw, faults, fs>>
          /\ mw.game_path # "" =>
                /\ l # <<>> /\ l[1].call = "uninstall"
                /\ OnlyAfter(l, "download_install_config", "uninstall")
                /\ OnlyAfter(l, "start", "download_install_config")
                /\ (Launches \/ mw'.is_downloading) =>
                      /\ l[Len(l)] = Call("start", TRUE)
                      /\ Launches /\ mw'.is_downloading
                      /\ dt'[mw'.download_thread].pc = "loop"
                /\ (\E i \in 1..Len(l) : ~l[i].ok) =>
                      /\ ~Launches
                      /\ ~mw'.is_downloading
                      /\ ui'.pc = "idle" ]_vars

C11_Witness ==
    /\ ui.log = <<Call("uninstall", TRUE), Call("download_install_config", TRUE),
                  Call("start", TRUE)>>
    /\ mw.is_downloading
    /\ mw.download_thread # 0
    /\ isRunning(mw.download_thread)
    /\ mw.name = "LLC-zh-CN"
    /\ lang = NoLang

\* C12: a start_installation call made while _is_downloading is true is
\* stop_installation and nothing else: no uninstall, no manifest fetch, no new
\* thread; and it takes effect: _is_downloading is false when the call
\* returns, at once when the content thread is not running, otherwise after
\* the thread, told to stop, has ended.
C12_StartWhileActiveCancels ==
    [][ /\ (StartInstallation /\ mw.is_downloading) =>
              /\ ui'.log = <<Call("stop_installation", TRUE)>>
              /\ UNCHANGED <<queue, cwd, lang, faults, fs>>
              /\ ~Launches
              /\ ui'.attempt = ui.attempt
              /\ mw'.install_config = mw.install_config /\ mw'.name = mw.name
              /\ \A t \in ThreadIds :
                    \/ dt'[t] = dt[t]
                    \/ t = mw.download_thread /\ dt'[t] = [dt[t] EXCEPT !.stop_flag = TRUE]
              /\ IF isRunning(mw.download_thread)
                 THEN ui'.pc = "wait" /\ dt'[mw.download_thread].stop_flag
                 ELSE ui'.pc = "idle" /\ ~mw'.is_downloading
        /\ StopReturns => (ui'.pc = "idle" /\ ~mw'.is_downloading) ]_vars

C12_Witness ==
    /\ ui.log = <<Call("stop_installation", TRUE)>>
    /\ ui.pc = "idle"
    /\ ~mw.is_downloading
    /\ ui.attempt \in ui.cancelled
    /\ dt[mw.download_thread].stop_flag
    /\ dt[mw.download_thread].result = CancelledMsg

\* ------------------------------------------------ completion slot claims
\* C15: no error dialog is raised for a download that ended because its stop
\* flag was set: show_error is never called with the cancelled message.
C15_CancelNotErrorDialog ==
    CancelledMsg \notin ui.shown

\* C16: when the format string a completion handler reads for its archive,
\* content-type or font-type, is neither 'zip' nor '7z', nothing is extracted,
\* an error is reported, and the attempt is not reported as a completed
\* installation.
C16_UnsupportedFormatIsError ==
    \A e \in ui.post :
        e.format \notin {"zip", "7z"} =>
            /\ ~e.extracted
            /\ e.error
            /\ \A o \in ui.post : o.attempt = e.attempt => ~o.info

\* C17: when the manifest supplies absolutePath and the content archive does
\* not hold that sub-path, post-processing ends with an error and places
\* nothing from the archive in the game directory.
C17_LayoutMismatchIsError ==
    \A e \in ui.post :
        e.layout_mismatch => (e.error /\ ~e.extracted /\ ~e.info)

\* Nothing is left to happen without the user: no thread runs, no signal
\* waits, the UI thread is not blocked.
Quiescent ==
    /\ ui.pc = "idle"
    /\ queue = <<>>
    /\ \A t \in ThreadIds : ~isRunning(t)

\* C20: an install attempt that set _is_downloading returns to idle without a
\* further user action: once its threads have ended and every signal has been
\* handled, _is_downloading is false.
C20_ReturnsToIdle ==
    Quiescent => ~mw.is_downloading

\* ------------------------------------------------- manifest client claims
\* The last answer of the call cfg records, and the answers before it.
LastOutcome == ui.cfg.outcomes[Len(ui.cfg.outcomes)]
EarlierOutcomes == {ui.cfg.outcomes[i] : i \in 1..Len(ui.cfg.outcomes) - 1}

\* What C13 says of a call whatever the body of a successful response is.
ConfigRetryRule ==
    /\ Len(ui.cfg.urls) \in 1..3
    /\ Len(ui.cfg.outcomes) = Len(ui.cfg.urls)
    /\ EarlierOutcomes \subseteq RetryKinds
    /\ ui.cfg.sleeps = Len(ui.cfg.urls) - 1
    /\ LastOutcome \in RetryKinds => (Len(ui.cfg.urls) = 3 /\ ~ui.cfg.ok)
    /\ LastOutcome \in {"other", "badjson"} => ~ui.cfg.ok
    /\ ~ui.cfg.ok => ui.cfg.errors = 1

\* C13 as stated: download_install_config makes at most 3 requests; a timeout
\* or connection error is retried after the delay until 3 attempts were made
\* and then fails; any other transport error, an HTTP error status or a body
\* that is not valid JSON fails at once; the first successful response whose
\* body parses as JSON returns success.
C13_ManifestRetries ==
    ui.cfg.called =>
        /\ ConfigRetryRule
        /\ LastOutcome \in {"ok", "notobject"} => ui.cfg.ok

\* C13 amended: the same, but a successful response returns success only when
\* its body is a JSON object; a JSON body of another kind fails at once like
\* one that is not JSON.
C13_ManifestRetriesObject ==
    ui.cfg.called =>
        /\ ConfigRetryRule
        /\ LastOutcome = "ok" => ui.cfg.ok
        /\ LastOutcome = "notobject" => ~ui.cfg.ok

C13_Witness ==
    /\ ui.cfg.called
    /\ ui.cfg.outcomes = <<"timeout", "conn", "ok">>
    /\ ui.cfg.ok
    /\ ui.cfg.sleeps = 2

\* The proxy URL p without its trailing slashes: the prefix of p that ends in
\* no slash and is followed by slashes only.
Stripped(p) ==
    LET k == CHOOSE j \in 0..Len(p) :
                 /\ j = 0 \/ p[j] # Slash
                 /\ \A i \in (j + 1)..Len(p) : p[i] = Slash
    IN SubSeq(p, 1, k)

\* C14: every request of a call goes to the same URL, which depends on
\* use_mirror and custom_proxy_url only: the GitHub raw URL without the
\* mirror, the custom proxy without its trailing slashes + '/' + host + path
\* with the mirror and a custom proxy, the default mirror URL with the mirror
\* and no custom proxy.
C14_ManifestUrl ==
    ui.cfg.called =>
        \A i \in 1..Len(ui.cfg.urls) :
            /\ ui.cfg.urls[i] =
                 IF ~mw.use_mirror
                 THEN <<"https://", "raw.githubusercontent.com", GithubPath>>
                 ELSE IF mw.custom_proxy_url # <<>>
                 THEN Stripped(mw.custom_proxy_url)
                        \o <<"/", "raw.githubusercontent.com", GithubPath>>
                 ELSE <<"https://gh-proxy.com", "/", "raw.githubusercontent.com", GithubPath>>
            /\ (mw.use_mirror /\ mw.custom_proxy_url = <<"https://proxy.example", "/">>)
                  => ui.cfg.urls[i] = <<"https://proxy.example", "/",
                                        "raw.githubusercontent.com", GithubPath>>

C14_Witness ==
    /\ ui.cfg.called
    /\ mw.use_mirror
    /\ mw.custom_proxy_url = <<ProxyHost, Slash>>
    /\ Len(ui.cfg.urls) = 3
    /\ ui.cfg.urls[3] = <<ProxyHost, Slash, GithubNetloc, GithubPath>>

\* C18: after a call of download_install_config that returned True, the
\* content name is not empty: it is the name field of the manifest when that
\* is present and not empty, and 'LLC-zh-CN' when it is absent, null or empty.
C18_NameFallback ==
    (ui.cfg.called /\ ui.cfg.ok) =>
        /\ mw.install_config.loaded
        /\ mw.name \notin {"", JsonAbsent, JsonNull}
        /\ mw.name = IF mw.install_config.name \in {JsonAbsent, JsonNull, ""}
                     THEN "LLC-zh-CN" ELSE mw.install_config.name

C18_Witness ==
    /\ ui.cfg.called
    /\ ui.cfg.ok
    /\ mw.install_config.name = ""
    /\ mw.name = "LLC-zh-CN"

\* ------------------------------------------------------- settings claims
\* C19 as stated: when save_path_record has written the four settings and a
\* fresh instance runs load_path_record, the instance holds the same
\* game_path, font_path, use_mirror and custom_proxy_url.
C19_RoundTrip ==
    (ui.rt.done /\ ui.rt.saved) =>
        /\ mw.game_path = ui.rt.game_path
        /\ mw.font_path = ui.rt.font_path
        /\ mw.use_mirror = ui.rt.use_mirror
        /\ mw.custom_proxy_url = ui.rt.custom_proxy_url

\* C19 amended: use_mirror and custom_proxy_url are always reproduced;
\* game_path is reproduced when the directory still holds the game and
\* font_path when the font file still exists, and is empty otherwise.
C19_RoundTripWhileValid ==
    (ui.rt.done /\ ui.rt.saved) =>
        /\ mw.game_path = IF ui.rt.game_valid THEN ui.rt.game_path ELSE ""
        /\ mw.font_path = IF ui.rt.font_exists THEN ui.rt.font_path ELSE ""
        /\ mw.use_mirror = ui.rt.use_mirror
        /\ mw.custom_proxy_url = ui.rt.custom_proxy_url

C19_Witness ==
    /\ ui.rt.done /\ ui.rt.saved
    /\ ui.rt.game_path = "G" /\ mw.game_path = "G"
    /\ ui.rt.font_path = "F" /\ mw.font_path = "F"
    /\ ui.rt.use_mirror /\ mw.use_mirror
    /\ ui.rt.custom_proxy_url = <<ProxyHost, Slash>>
    /\ mw.custom_proxy_url = <<ProxyHost, Slash>>

\* ------------------------------------------------- worker thread claims
\* C21: after stop() has been called during run(), the run begins no further
\* HTTP request, waits out no retry delay and writes no further chunk: the
\* only step it still takes is the one that sees the flag and returns.
C21_StopReturnsPromptly ==
    [][ \A t \in ThreadIds :
          dt[t].stop_flag =>
            /\ Len(dt'[t].urls) = Len(dt[t].urls)
            /\ ~(dt[t].pc = "sleep" /\ dt'[t].pc = "loop")
            /\ dt'[t].downloaded_size = dt[t].downloaded_size ]_vars

\* ------------------------------------------------------- routing claims
\* C22: each completed download is handled once and by the handler of its own
\* kind: the archive of a content thread by post_download_operations, the
\* archive of a font thread by on_font_download_finished.
C22_RoutedByKind ==
    /\ \A e \in ui.post :
          e.handler = IF dt[e.thr].kind = "content" THEN "post_download_operations"
                      ELSE "on_font_download_finished"
    /\ \A e \in ui.post, o \in ui.post : e.thr = o.thr => e = o

\* ---------------------------------------------------------- font claims
\* C23: after a successful content extraction with a chosen font that is not
\* the default one, the font is copied into the Font subdirectory of the
\* installed content directory, Lang/<content name>; with no font chosen, or
\* the default one, no font directory is touched.
C23_FontIntoContentDir ==
    \A e \in ui.post :
        (e.handler = "post_download_operations" /\ e.extracted) =>
            e.font_dir = IF e.font \notin {"", DefaultFont} THEN e.content_dir ELSE ""

\* ---------------------------------------------------- sibling downloads
\* on_download_error has run for the download_error of thread t.
ErrorHandled(t) ==
    /\ dt[t].pc = "done"
    /\ dt[t].result \in {"timeout", "conn", "other", CancelledMsg}
    /\ ~Pending(t)

\* The other threads of the attempt of thread t.
Siblings(t) == OfAttempt(dt[t].attempt) \ {t}

\* C24: after a download_error of one thread of an attempt has been handled,
\* the other thread of the attempt has been told to stop or has ended, and no
\* completion of that attempt is post-processed from then on.
C24_FailureCancelsSibling ==
    [][ /\ \A t \in ThreadIds :
              ErrorHandled(t)' =>
                  \A s \in Siblings(t)' : dt'[s].stop_flag \/ dt'[s].pc = "done"
        /\ \A e \in ui'.post \ ui.post :
              \A t \in OfAttempt(e.attempt) : ~ErrorHandled(t) ]_vars

\* ------------------------------------------------------ UI thread claims
\* The handler the UI thread ran last called download_install_config, whose
\* requests.get and time.sleep calls run in the calling thread.
UiFetchedManifest ==
    \E i \in 1..Len(ui.log) : ui.log[i].call = "download_install_config"

\* The UI thread is blocked in wait() on a worker that is at a request, in a
\* response body or in a retry delay.
UiWaitsOnNetwork ==
    ui.pc = "wait" /\ isRunning(mw.download_thread)

\* C25: the UI thread performs no HTTP request and no retry delay, and does
\* not wait for a worker thread that is in network I/O.
C25_UiOffNetwork ==
    ~UiFetchedManifest /\ ~UiWaitsOnNetwork

\* ------------------------------------------------- terminal signal claims
\* The signals thread t has emitted, in order.
SignalsOf(t) == SelectSeq(queue, LAMBDA m : m.thr = t)

\* C26: a run() that has ended has emitted exactly one terminal signal,
\* download_finished or download_error, as its last signal, whatever the
\* request, the opening of the destination file and the writing of the chunks
\* came to; a run() that has not ended has emitted none.
C26_OneTerminalSignal ==
    \A t \in ThreadIds :
        IF dt[t].pc = "done"
        THEN /\ Len(Terminal(t)) = 1
             /\ SignalsOf(t)[Len(SignalsOf(t))].sig \in {"download_finished", "download_error"}
        ELSE Terminal(t) = <<>>

\* ------------------------------------------------- destination claims
\* Threads t and s were started by the same start_installation call.
SameCall(t, s) ==
    /\ t # s
    /\ dt[t].pc # "none" /\ dt[s].pc # "none"
    /\ dt[t].attempt = dt[s].attempt

\* C27: the two download threads one start_installation call starts have
\* distinct destination paths, so that they never have the same file open for
\* writing at the same time.
C27_DistinctDestinations ==
    \A t \in ThreadIds, s \in ThreadIds :
        SameCall(t, s) =>
            /\ dt[t].save_path # dt[s].save_path
            /\ ~(dt[t].pc = "stream" /\ dt[s].pc = "stream"
                 /\ dt[t].save_path = dt[s].save_path)

\* ------------------------------------------------------ UnzipWorker claims
\* The progress values the worker has emitted, in order, and the positions in
\* out of the messages that report a failure.
UnzipValues == SelectSeq(uz.out, LAMBDA m : m.sig = "progress")
UnzipErrors == {j \in 1..Len(uz.out) : uz.out[j] \in {Log(MissingMsg), Log(ErrorMsg)}}
UnzipCompleted == \E j \in 1..Len(uz.out) : uz.out[j] = Log(CompleteMsg)

\* What C28 says of run() whatever the range of the progress values is: they
\* are non-decreasing; the completion message is emitted only when every entry
\* was extracted and no error reported, and then progress 100 follows it as
\* the last signal; an error message is the last signal.
UnzipRule ==
    LET p == UnzipValues
        n == Len(uz.out)
    IN
    /\ \A j \in 1..Len(p) - 1 : p[j].arg <= p[j + 1].arg
    /\ UnzipCompleted =>
          /\ uz.i = uz.total_files
          /\ UnzipErrors = {}
          /\ uz.pc = "done"
          /\ uz.out[n - 1] = Log(CompleteMsg) /\ uz.out[n] = Prog(100)
    /\ (uz.pc = "done" /\ uz.out # <<>> /\ uz.out[n] = Prog(100)) => UnzipCompleted
    /\ \A j \in UnzipErrors : j = n /\ uz.pc = "done"

\* C28 as stated: the rule above, with every progress value within 1..100.
C28_UnzipProgress ==
    /\ UnzipRule
    /\ \A j \in 1..Len(UnzipValues) : UnzipValues[j].arg \in 1..100

\* C28 amended: the rule above, with every progress value within 0..100.
C28_UnzipProgressFromZero ==
    /\ UnzipRule
    /\ \A j \in 1..Len(UnzipValues) : UnzipValues[j].arg \in 0..100

C28_Witness ==
    /\ uz.pc = "done"
    /\ uz.total_files = 3
    /\ UnzipValues = <<Prog(33), Prog(66), Prog(100), Prog(100)>>
    /\ uz.out[Len(uz.out) - 1] = Log(CompleteMsg)

====
